---- MODULE Spec2Model ----
(***************************************************************************)
(* Model of the FBO supply-order sync: fbo/sync.py (sync_once and its      *)
(* helpers), fbo/main.py (the poll loop), fbo/http_client.py (the retrying *)
(* transport) and the two API wrappers.                                    *)
(*                                                                         *)
(* Encoding conventions                                                    *)
(*   - a Python string is a TLA+ string; an offer id, which the code       *)
(*     rewrites character by character, is a sequence of one-character     *)
(*     tokens ("cyrA" is CYRILLIC CAPITAL A, "endash" is U+2013, ...);     *)
(*   - Python None / a missing key is the record NONE or the string "";    *)
(*   - a date is a day number and an instant an hour number (24 per day);  *)
(*   - a price-list value is kept in tenths so that round() is not the     *)
(*     identity.                                                           *)
(***************************************************************************)
EXTENDS Integers, Sequences, FiniteSets, TLC

\* ------------------------------------------------------------- bounds
\* number of supply orders the source lists
NumOrders == 2
\* RetryPolicy.max_attempts of the ERP client (MS_RETRY_MAX)
RetryMax == 2
\* days date.today() may advance by while the service runs
MaxDaysOn == 2
\* FboConfig.min_date_iso as a day number (FBO_MIN_DATE)
MinDate == 2
\* FboConfig.lookback_days (FBO_LOOKBACK_DAYS)
LookbackDays == 1
\* events of the environment in one behaviour: an order revised by the
\* source, an answer of the ERP lost after the ERP stored the document, the
\* process dying and being started again
MaxEvents == 1
\* rows one GET /entity/bundle/{id}/components may return (`limit`, 1000 in
\* ms_api.py, scaled down)
ComponentsLimit == 2
\* direct calls of a helper in one behaviour of ProbeSpec
MaxProbes == 3

\* ------------------------------------------------------ sync.py constants
ACTIVE_STATES ==
    {"READY_TO_SUPPLY", "ACCEPTED_AT_SUPPLY_WAREHOUSE", "IN_TRANSIT",
     "ACCEPTANCE_AT_STORAGE_WAREHOUSE", "REPORTS_CONFIRMATION_AWAITING",
     "COMPLETED", "OVERDUE"}

CANCELLED_STATES == {"CANCELLED", "REJECTED_AT_SUPPLY_WAREHOUSE", "REPORT_REJECTED"}

HoursPerDay == 24

\* ------------------------------------------------------------ sequences
RECURSIVE MapSeq(_, _)
MapSeq(F(_), s) == IF s = <<>> THEN <<>> ELSE <<F(Head(s))>> \o MapSeq(F, Tail(s))

\* ------------------------------------------------- normalize_offer_id
\* str.upper() on one character
Upper(c) ==
    CASE c = "a" -> "A"
      [] c = "k" -> "K"
      [] c = "cyra" -> "cyrA"
      [] OTHER -> c

\* the Cyrillic->Latin look-alike table (the entries over the model's alphabet)
LookalikeWrong(c) == c
Lookalike(c) ==
    CASE c = "cyrA" -> "A"
      [] c = "cyrK" -> "K"
      [] OTHER -> c

\* .replace(en dash, "-").replace(em dash, "-")
Dash(c) == IF c \in {"endash", "emdash"} THEN "-" ELSE c

RECURSIVE LStrip(_)
LStrip(s) == IF s # <<>> /\ Head(s) = " " THEN LStrip(Tail(s)) ELSE s

RECURSIVE RStrip(_)
RStrip(s) ==
    IF s # <<>> /\ s[Len(s)] = " " THEN RStrip(SubSeq(s, 1, Len(s) - 1)) ELSE s

\* str.strip()
Strip(s) == LStrip(RStrip(s))

\* str.split("-"): the list of segments between hyphens (never empty)
RECURSIVE SplitDash(_)
SplitDash(s) ==
    IF \A i \in 1..Len(s) : s[i] # "-"
    THEN <<s>>
    ELSE LET i == CHOOSE j \in 1..Len(s) :
                      s[j] = "-" /\ \A k \in 1..(j - 1) : s[k] # "-"
         IN <<SubSeq(s, 1, i - 1)>> \o SplitDash(SubSeq(s, i + 1, Len(s)))

\* "-".join(parts)
RECURSIVE JoinDash(_)
JoinDash(parts) ==
    IF Len(parts) = 1 THEN parts[1]
    ELSE parts[1] \o <<"-">> \o JoinDash(Tail(parts))

normalize_offer_id(s) ==
    LET t1 == MapSeq(Upper, Strip(s))
        t2 == MapSeq(Lookalike, t1)
        t3 == MapSeq(Dash, t2)
    IN JoinDash(MapSeq(Strip, SplitDash(t3)))

\* ------------------------------------------------ ms_default_sale_price
NOPRICE == -1

\* int(round(float(v), 0)) for a value given in tenths: round half to even
RoundTenths(v10) ==
    LET q == v10 \div 10
        r == v10 % 10
    IN IF r < 5 THEN q
       ELSE IF r > 5 THEN q + 1
       ELSE IF q % 2 = 0 THEN q ELSE q + 1

\* float(value) raises for a value that is no number (p.num = FALSE)
PriceOf(p) == IF ~p.num THEN NOPRICE ELSE RoundTenths(p.tenths)

ms_default_sale_price_first(prices) ==
    IF prices # <<>> THEN PriceOf(prices[1]) ELSE NOPRICE

ms_default_sale_price(prices) ==
    IF \E i \in 1..Len(prices) : prices[i].name = "sale"
    THEN LET i == CHOOSE j \in 1..Len(prices) :
                      prices[j].name = "sale"
                      /\ \A k \in 1..(j - 1) : prices[k].name # "sale"
         IN PriceOf(prices[i])
    ELSE IF prices # <<>> THEN PriceOf(prices[1])
    ELSE NOPRICE

\* ------------------------------------------------------- the ERP catalog
\* (environment data: what MsApi's catalog reads return)
NONE == [kind |-> "none"]

ArtA1 == <<"A", "1">>
ArtK1 == <<"K", "-", "1">>
ArtP0 == <<"P", "0">>
ArtB9 == <<"B", "9">>

\* GET /entity/product?filter=article=...: rows[0] or None
search_product_by_article(key) ==
    CASE key = ArtA1 -> [kind |-> "row", id |-> "p1"]
      [] key = ArtP0 -> [kind |-> "row", id |-> "p0"]
      [] OTHER -> NONE

\* GET /entity/bundle?filter=article=...: rows[0] or None
search_bundle_by_article(key) ==
    CASE key = ArtK1 -> [kind |-> "row", id |-> "k1"]
      [] key = ArtB9 -> [kind |-> "row", id |-> "k9"]
      [] OTHER -> NONE

\* GET /entity/product/{id} and /entity/variant/{id}: the salePrices list
SalePrices(id) ==
    CASE id = "p1" -> <<[name |-> "retail", num |-> TRUE, tenths |-> 700],
                        [name |-> "sale", num |-> TRUE, tenths |-> 1000]>>
      [] id = "v1" -> <<[name |-> "retail", num |-> TRUE, tenths |-> 505]>>
      [] OTHER -> <<>>

\* the components the catalog holds for a bundle: k1 has two, k9 one more
\* than a single request returns
BundleComponents(id) ==
    CASE id = "k1" -> <<[href |-> "p1", type |-> "product", tenths |-> 20],
                        [href |-> "v1", type |-> "variant", tenths |-> 10]>>
      [] id = "k9" -> [i \in 1..(ComponentsLimit + 1) |->
                          [href |-> "p1", type |-> "product", tenths |-> 10]]
      [] OTHER -> <<>>

\* GET /entity/bundle/{id}/components with limit and offset 0: rows
get_bundle_components(id) ==
    SubSeq(BundleComponents(id), 1,
           IF Len(BundleComponents(id)) < ComponentsLimit
           THEN Len(BundleComponents(id)) ELSE ComponentsLimit)

\* ---------------------------------------------------- resolve_assortment
\* one component of a bundle (the loop body): a component record or an error
ComponentRec(c) ==
    IF c.href = "" \/ c.type = "" THEN [err |-> "component missing meta"]
    ELSE IF c.type \notin {"product", "variant"}
    THEN [err |-> "component type not supported"]
    ELSE LET price == ms_default_sale_price(SalePrices(c.href))
         IN IF price = NOPRICE THEN [err |-> "component has no salePrices"]
            ELSE [err |-> "", meta |-> c.href, qty |-> RoundTenths(c.tenths),
                  price |-> price]

\* the catalog requests the loop makes for the components up to the k-th:
\* one GET for each component that has its meta and a supported type
RECURSIVE ComponentCalls(_, _)
ComponentCalls(comps, k) ==
    IF k = 0 THEN 0
    ELSE ComponentCalls(comps, k - 1)
         + (IF comps[k].href # "" /\ comps[k].type \in {"product", "variant"}
            THEN 1 ELSE 0)

\* sync.py 115-126: the product branch, the default sale price in hand
ProductRecord(key, id, price) ==
    IF price = NOPRICE
    THEN [err |-> "product has no salePrices", rec |-> NONE, calls |-> 2]
    ELSE [err |-> "",
          rec |-> [kind |-> "product", meta |-> id, price |-> price,
                   components |-> <<>>, article |-> key],
          calls |-> 2]

\* the first component the loop of sync.py 137-168 returns an error for
FirstBad(recs) ==
    CHOOSE i \in 1..Len(recs) :
        recs[i].err # "" /\ \A j \in 1..(i - 1) : recs[j].err = ""

\* sync.py 131-177: the bundle branch, the rows of the components request
\* and what the loop makes of each of them in hand
BundleRecord(key, id, comps, recs) ==
    IF comps = <<>>
    THEN [err |-> "bundle has no components", rec |-> NONE, calls |-> 4]
    ELSE IF \E i \in 1..Len(recs) : recs[i].err # ""
    THEN [err |-> recs[FirstBad(recs)].err, rec |-> NONE,
          calls |-> 4 + ComponentCalls(comps, FirstBad(recs))]
    ELSE [err |-> "",
          rec |-> [kind |-> "bundle", meta |-> id, price |-> 0,
                   components |-> recs, article |-> key],
          calls |-> 4 + ComponentCalls(comps, Len(comps))]

\* sync.py 113-179 with the answers of the two searches in hand
RecordFrom(key, row, brow) ==
    IF row # NONE
    THEN ProductRecord(key, row.id, ms_default_sale_price(SalePrices(row.id)))
    ELSE IF brow # NONE
    THEN BundleRecord(key, brow.id, get_bundle_components(brow.id),
                      MapSeq(ComponentRec, get_bundle_components(brow.id)))
    ELSE [err |-> "not found", rec |-> NONE, calls |-> 2]

\* the record built on a cache miss: [err, rec, calls], calls being the
\* number of catalog requests made on the way
BuildRecord(key) ==
    RecordFrom(key, search_product_by_article(key), search_bundle_by_article(key))

\* `cache[key] = rec`
Store(cache, key, rec) ==
    [k \in DOMAIN cache \cup {key} |-> IF k = key THEN rec ELSE cache[k]]

\* resolve_assortment(cache, offer_id): [rec, err, cache, calls]: what it
\* returns, the cache as it leaves it, and the catalog requests it made
CacheHit(cache, key) ==
    [rec |-> cache[key], err |-> "", cache |-> cache, calls |-> 0]

\* sync.py 112-179: the record is built; it is stored when there is no error
CacheMiss(cache, key, b) ==
    IF b.err # ""
    THEN [rec |-> NONE, err |-> b.err, cache |-> cache, calls |-> b.calls]
    ELSE [rec |-> b.rec, err |-> "", calls |-> b.calls,
          cache |-> Store(cache, key, b.rec)]

CacheMissStoreAll(cache, key, b) ==
    [rec |-> b.rec, err |-> b.err, calls |-> b.calls,
     cache |-> Store(cache, key, b.rec)]

ResolveKeyNoCache(cache, key) == CacheMiss(cache, key, BuildRecord(key))

ResolveKeyNegCache(cache, key) ==
    IF key \in DOMAIN cache THEN CacheHit(cache, key)
    ELSE CacheMissStoreAll(cache, key, BuildRecord(key))

ResolveKey(cache, key) ==
    IF key \in DOMAIN cache THEN CacheHit(cache, key)
    ELSE CacheMiss(cache, key, BuildRecord(key))

resolve_assortment_nocache(cache, offer_id) ==
    ResolveKeyNoCache(cache, normalize_offer_id(offer_id))

resolve_assortment_negcache(cache, offer_id) ==
    ResolveKeyNegCache(cache, normalize_offer_id(offer_id))

resolve_assortment(cache, offer_id) ==
    ResolveKey(cache, normalize_offer_id(offer_id))

\* ------------------------------------- building positions (sync.py 337-375)
NOQTY == -1

\* qty = int(qty_raw), or 1 when the item carries no quantity
ItemQty(qty_raw) == IF qty_raw = NOQTY THEN 1 ELSE qty_raw

\* the line items one resolved record contributes for an ordered quantity
RecordLinesUnscaled(rec, qty) ==
    IF rec.kind = "product"
    THEN <<[quantity |-> qty, price |-> rec.price, assortment |-> rec.meta]>>
    ELSE LET Line(c) == [quantity |-> c.qty, price |-> c.price,
                         assortment |-> c.meta]
         IN MapSeq(Line, rec.components)

RecordLines(rec, qty) ==
    IF rec.kind = "product"
    THEN <<[quantity |-> qty, price |-> rec.price, assortment |-> rec.meta]>>
    ELSE LET Line(c) == [quantity |-> qty * c.qty, price |-> c.price,
                         assortment |-> c.meta]
         IN MapSeq(Line, rec.components)

\* sync.py 352-370: what one resolved item adds to what the items after it
\* give
AddItem(oi, r, rest) ==
    IF r.err # ""
    THEN [rest EXCEPT !.errors = @ + 1]
    ELSE IF r.rec.kind \in {"product", "bundle"}
    THEN [rest EXCEPT !.positions = RecordLines(r.rec, ItemQty(oi.quantity)) \o @]
    ELSE [rest EXCEPT !.errors = @ + 1]

\* the loop over oz_items: [positions, errors, cache]
RECURSIVE BuildPositions(_, _)
RECURSIVE ResolvedItem(_, _, _)
ResolvedItem(oi, items, r) == AddItem(oi, r, BuildPositions(r.cache, items))

BuildPositions(cache, items) ==
    IF items = <<>> THEN [positions |-> <<>>, errors |-> 0, cache |-> cache]
    ELSE IF Head(items).offer_id = <<>>
    THEN BuildPositions(cache, Tail(items))
    ELSE ResolvedItem(Head(items), Tail(items),
                      resolve_assortment(cache, Head(items).offer_id))

\* ------------------------------------------------- error classification
\* An HttpError is [kind |-> "http", status, body]; body is the set of the
\* substrings (of those the classifiers look for) that err.body.lower() holds.
\* "uzhe", "ostat", "nedostat" stand for the Cyrillic needles.
_is_name_conflict_status_only(e) == e.status \in {409, 412, 422}

_is_name_conflict(e) ==
    \/ e.status \in {409, 412, 422}
    \/ ("name" \in e.body /\ e.body \cap {"uzhe", "exists", "unique"} # {})

_is_stock_error(e) ==
    e.body \cap {"ostat", "stock", "not enough", "nedostat", "available", "quantity"} # {}

\* ------------------------------------------------------ the environment
\* what one attempt of a POST can come to (http_client.py 68-89):
\*   ok    the ERP stores the document and answers 2xx
\*   lost  the ERP stores the document, the answer never arrives
\*         (requests.RequestException: read timeout, connection reset)
\*   exc   requests.RequestException before the ERP stored anything
\*   http  the ERP refuses with a non-2xx status, nothing stored
HttpErrors ==
    {[kind |-> "http", status |-> 409, body |-> {}],
     [kind |-> "http", status |-> 400, body |-> {"name", "unique"}],
     [kind |-> "http", status |-> 400, body |-> {"stock"}],
     [kind |-> "http", status |-> 412, body |-> {"quantity"}],
     [kind |-> "http", status |-> 400, body |-> {"name"}],
     [kind |-> "http", status |-> 500, body |-> {}]}

NOERR == [kind |-> "none", status |-> 0, body |-> {}]

SendOutcomes ==
    {[kind |-> k, status |-> 0, body |-> {}] : k \in {"ok", "lost", "exc"}}
    \cup HttpErrors

Commits(o) == o.kind \in {"ok", "lost"}

\* the order number of the order in slot i, when it has its own
Num(i) == CASE i = 1 -> "N1" [] i = 2 -> "N2" [] OTHER -> "N3"

\* document names (order numbers) the source uses
Names == {Num(i) : i \in 1..NumOrders}

\* timeslot.timeslot.from: missing, unparseable, or an ISO instant given as
\* the hour it shows (h) and its UTC offset in hours (off; "Z" is 0)
TS_NONE == [kind |-> "none", h |-> 0, off |-> 0]
TS_BAD == [kind |-> "bad", h |-> 0, off |-> 0]
TsIso(h, off) == [kind |-> "iso", h |-> h, off |-> off]

\* datetime.fromisoformat(...).astimezone(timezone.utc), as an hour number
ParseIsoNoOffset(ts) == ts.h
ParseIso(ts) == ts.h - ts.off

\* ozon.bundle_items_all(bundle_id): the items of an order's bundle
bundle_items_all(bundle_id) ==
    CASE bundle_id = "b_ok" -> <<[offer_id |-> <<"a", "1">>, quantity |-> 3]>>
      [] bundle_id = "b_kit" ->
             <<[offer_id |-> <<"cyrK", " ", "endash", "1", " ">>, quantity |-> 3],
               [offer_id |-> <<"A", "1">>, quantity |-> NOQTY]>>
      [] bundle_id = "b_bad" ->
             <<[offer_id |-> <<"A", "1">>, quantity |-> 1],
               [offer_id |-> <<"X", "9">>, quantity |-> 1]>>
      [] bundle_id = "b_blank" ->
             <<[offer_id |-> <<>>, quantity |-> 2],
               [offer_id |-> <<"A", "1">>, quantity |-> 1]>>
      [] OTHER -> <<>>

NOID == 0

Order(oid, num, st, ts, b) ==
    [order_id |-> oid, order_number |-> num, state |-> st, timeslot |-> ts,
     bundle_id |-> b]

DayStart(d) == d * HoursPerDay

\* the orders the source may hold in slot i (order id i): slot 1 takes every
\* shape the selection tells apart; slot 2 an order of its own or one that
\* shares slot 1's order number; the slots after it an order with an item
\* the catalog does not hold
SampleOrders(i) ==
    IF i = 2
    THEN {Order(i, Num(i), "READY_TO_SUPPLY", TsIso(DayStart(MinDate + 1), 0), "b_ok"),
          Order(i, Num(1), "IN_TRANSIT", TsIso(DayStart(MinDate + 1), 0), "b_ok")}
    ELSE IF i > 2
    THEN {Order(i, Num(i), "READY_TO_SUPPLY", TsIso(DayStart(MinDate + 1), 0), "b_bad")}
    ELSE
    {Order(i, Num(i), "READY_TO_SUPPLY", TsIso(DayStart(MinDate), 0), "b_ok"),
     Order(i, Num(i), "IN_TRANSIT", TsIso(DayStart(MinDate + 1), 0), "b_kit"),
     Order(i, Num(i), "CANCELLED", TsIso(DayStart(MinDate), 0), "b_ok"),
     Order(i, "", "CANCELLED", TS_NONE, ""),
     Order(i, Num(i), "READY_TO_SUPPLY", TsIso(DayStart(MinDate) - 1, 0), "b_ok"),
     Order(i, Num(i), "IN_TRANSIT", TsIso(DayStart(MinDate) + 2, 3), "b_ok"),
     Order(i, Num(i), "IN_TRANSIT", TS_BAD, "b_ok"),
     Order(i, Num(i), "READY_TO_SUPPLY", TS_NONE, "b_ok"),
     Order(i, Num(i), "READY_TO_SUPPLY", TsIso(DayStart(MinDate), 0), "b_bad"),
     Order(i, Num(i), "IN_TRANSIT", TsIso(DayStart(MinDate + 1), 0), "b_blank"),
     Order(i, Num(i), "READY_TO_SUPPLY", TsIso(DayStart(MinDate), 0), ""),
     Order(NOID, Num(i), "READY_TO_SUPPLY", TsIso(DayStart(MinDate), 0), "b_ok")}

\* the configurations load_config can build, and the ones a caller of
\* sync_once can pass: FboConfig (config.py 57-77) has no ms_move_* fields,
\* which sync.py 423-425 reads; move_ids says whether cfg carries them
Configs == [dry_run : BOOLEAN, move_ids : BOOLEAN]

\* what the source may turn an order into between two passes
Revised(o) ==
    {[o EXCEPT !.state = "IN_TRANSIT"],
     [o EXCEPT !.state = "CANCELLED"],
     [o EXCEPT !.state = "CANCELLED", !.order_number = ""]} \ {o}

\* ---------------------------------------------------------------- state
VARIABLES
    cfg,            \* FboConfig of the running process
    today,          \* what date.today() returns
    src,            \* the order source: slot -> supply order
    events,         \* how many events of the environment have happened
    sales,          \* ERP: name -> number of customerorder documents
    moves,          \* ERP: name -> number of move documents
    sales_lines,    \* ERP: name -> the `positions` of each customerorder stored
    supplies_mem,   \* main.supplies: order id -> memory entry
    supplies_file,  \* supplies.json
    assort_cache,   \* main.assortments: article -> record
    assort_file,    \* assortments.json
    pc,             \* where the process is
    orders,         \* sync_once: the orders of the detail fetch
    idx,            \* sync_once: position in orders (1-based)
    start_dt,       \* sync_once: window start, an hour number
    counts,         \* sync_once: [created, skipped]
    loc,            \* sync_once: locals of the order being processed
    h,              \* history: what happened to the order last taken up
    hp,             \* history: what happened in this pass and the one before
    probe           \* history: the last direct call of a helper (ProbeSpec)

vars == <<cfg, today, src, events, sales, moves, supplies_mem, supplies_file,
          assort_cache, assort_file, pc, orders, idx, start_dt, counts, loc, h, hp,
          probe, sales_lines>>

\* ------------------------------------------------------ memory entries
NODOC == [name |-> "", n |-> 0]
DRYDOC == [name |-> "DRY", n |-> 0]
NOENTRY == [order_number |-> "", state |-> "", dry |-> FALSE, ms |-> NODOC,
            move |-> NODOC, applicable |-> FALSE]

Entry(num, st, dry, co, mv, app) ==
    [order_number |-> num, state |-> st, dry |-> dry, ms |-> co, move |-> mv,
     applicable |-> app]

\* dict.get(k) / dict.pop(k, None) / d[k] = v
Get(m, k) == IF k \in DOMAIN m THEN m[k] ELSE NOENTRY
Pop(m, k) == [x \in DOMAIN m \ {k} |-> m[x]]
Put(m, k, v) == [x \in DOMAIN m \cup {k} |-> IF x = k THEN v ELSE m[x]]

\* supplies_mem.pop(order_id, None) at sync.py 261, 414 and 448
KeepEntry(m, k) == m
PopCancelled(m, k) == Pop(m, k)
PopMoveExists(m, k) == Pop(m, k)
PopConflict(m, k) == Pop(m, k)

\* move_body["applicable"] of the second create_move call (sync.py 452)
RetryApplicableStill == TRUE
RetryApplicable == FALSE

\* loc.retry: the create_move call under way is the one of line 454
LOC0 == [existing |-> FALSE, co |-> NODOC, positions |-> <<>>, applicable |-> TRUE,
         retry |-> FALSE, attempt |-> 0]

\* h.i        position of the order in orders
\* h.had0     the memory held an entry for it when its processing began
\* h.mem0     that entry
\* h.co0      a sales document of its name existed then
\* h.mv0      a transfer document of its name existed then
\* h.called   a call to the ERP or to the source was made for it
\* h.co_calls create_customerorder calls made for it
\* h.mv_calls create_move calls made for it
\* h.path     how its processing ended ("" while it goes on)
\* h.err1     the exception the first create_move call ended with
\* h.err      the exception that ended its processing
\* h.c0       (created, skipped) when its processing began
\* h.co_made  the ERP stored a sales document for it in this pass
\* h.mv_made  the ERP stored a transfer document for it in this pass
COUNTS0 == [created |-> 0, skipped |-> 0]

H0 == [i |-> 0, had0 |-> FALSE, mem0 |-> NOENTRY, co0 |-> FALSE, mv0 |-> FALSE,
       called |-> FALSE, co_calls |-> 0, mv_calls |-> 0, path |-> "",
       err1 |-> NOERR, err |-> NOERR, c0 |-> COUNTS0, co_made |-> FALSE,
       mv_made |-> FALSE]

\* hp.wrote    a create call was made in this pass
\* hp.forgot   an entry was removed on a conflict-classified failure
\* hp.prev     how the pass before ended
\* hp.stop_pc  where the process was when the stop signal reached it
\* hp.stop_co  the order in hand had its sales document stored in this pass
\*             and its transfer lookup not yet run
HP0 == [wrote |-> FALSE, forgot |-> FALSE, prev |-> "none", stop_pc |-> "",
        stop_co |-> FALSE]

\* ------------------------------------------- the listing (sync.py 210-225)
\* A paging is the sequence of pages the source cuts its listing into; a
\* page is [order_ids, last_id], last_id "" when the page carries no cursor.
NOPAGE == [order_ids |-> <<>>, last_id |-> ""]

AllIds == [i \in 1..NumOrders |-> i]

\* the pagings the source may answer with: everything on one page; a page
\* for the first order and one for the rest, closed by an empty page; the
\* same closed by an empty page that still carries a cursor; an empty page
\* with a cursor in the middle of the listing
SourcePagings ==
    {<<[order_ids |-> AllIds, last_id |-> ""]>>,
     <<[order_ids |-> <<1>>, last_id |-> "c1"],
       [order_ids |-> SubSeq(AllIds, 2, NumOrders), last_id |-> "c2"],
       NOPAGE>>,
     <<[order_ids |-> <<1>>, last_id |-> "c1"],
       [order_ids |-> SubSeq(AllIds, 2, NumOrders), last_id |-> "c2"],
       [order_ids |-> <<>>, last_id |-> "c3"]>>,
     <<[order_ids |-> <<1>>, last_id |-> "c1"],
       [order_ids |-> <<>>, last_id |-> "c2"],
       [order_ids |-> SubSeq(AllIds, 2, NumOrders), last_id |-> ""]>>}

\* ozon.list_supply_orders(..., last_id): the first page, or the page that
\* follows the one which carried this cursor
list_supply_orders(pages, last_id) ==
    LET k == IF last_id = "" THEN 1
             ELSE 1 + (CHOOSE j \in 1..Len(pages) : pages[j].last_id = last_id)
    IN IF k <= Len(pages) THEN pages[k] ELSE NOPAGE

\* `if not last_id or not ids: break`
ListingDoneNoCursor(resp) == resp.last_id = ""
ListingDone(resp) == resp.last_id = "" \/ resp.order_ids = <<>>

\* the `while True` loop from a cursor on: [order_ids, calls]
RECURSIVE DrainListing(_, _)
DrainListing(pages, last_id) ==
    LET resp == list_supply_orders(pages, last_id)
    IN IF ListingDone(resp)
       THEN [order_ids |-> resp.order_ids, calls |-> 1]
       ELSE LET rest == DrainListing(pages, resp.last_id)
            IN [order_ids |-> resp.order_ids \o rest.order_ids,
                calls |-> 1 + rest.calls]

\* ozon.get_supply_orders(batch): the orders of the listed ids
get_supply_orders(source, ids) == [k \in 1..Len(ids) |-> source[ids[k]]]

\* ------------------------------ JsonHttpClient.request (http_client.py 55-100)
\* `if resp.status_code in (429, 500, 502, 503, 504)`
RETRYABLE == {429, 500, 502, 503, 504}

\* what session.request comes to on one attempt: a 2xx response, a
\* requests.RequestException, a response with a retryable status, a response
\* with another non-2xx status
AttemptAnswers ==
    {[kind |-> "ok", status |-> 200],
     [kind |-> "exc", status |-> 0],
     [kind |-> "http", status |-> 500],
     [kind |-> "http", status |-> 400]}

\* the exception one failed attempt raises inside the try block
Raised(a) == IF a.kind = "exc" THEN "RequestException" ELSE "HttpError"

\* the `for attempt in range(1, max_attempts + 1)` loop from one attempt on:
\* [sent, raised, status]: how often the request was sent, the exception
\* that left request ("" when it returned) and the status it carries
RECURSIVE RequestFrom(_, _, _)
RequestFrom(attempt, max_attempts, answers) ==
    IF attempt > max_attempts
    THEN [sent |-> 0, raised |-> "RuntimeError", status |-> 0]
    ELSE IF answers[attempt].kind = "ok"
    THEN [sent |-> 1, raised |-> "", status |-> answers[attempt].status]
    ELSE IF attempt >= max_attempts
    THEN [sent |-> 1, raised |-> Raised(answers[attempt]),
          status |-> answers[attempt].status]
    ELSE [RequestFrom(attempt + 1, max_attempts, answers) EXCEPT !.sent = @ + 1]

request(max_attempts, answers) == RequestFrom(1, max_attempts, answers)

\* the calls of request the probes make: max_attempts and the answers the
\* attempts would get
RequestArgs ==
    [max_attempts : 0..RetryMax, answers : [1..RetryMax -> AttemptAnswers]]

\* -------------------------------------------------------------- probes
\* probe.op      the helper called last ("resolve", "positions", "list",
\*               "request")
\* probe.n       calls made so far
\* probe.arg     its argument (an offer id, a list of items, a paging)
\* probe.key     normalize_offer_id(arg) of a resolve
\* probe.before  the cache as the call found it
\* probe.rec, probe.err, probe.calls   what a resolve returned and the
\*               number of catalog requests it made; for a request the
\*               exception that left it and the number of times it was sent
\* probe.out, probe.errors   the positions and the number of errors of a
\*               positions call; the order ids of a listing
\* probe.prev    op, arg, key, err and calls of the call before
PREV0 == [op |-> "", arg |-> <<>>, key |-> <<>>, err |-> "", calls |-> 0]

PROBE0 == [op |-> "", n |-> 0, arg |-> <<>>, key |-> <<>>, before |-> <<>>,
           rec |-> NONE, err |-> "", errors |-> 0, calls |-> 0, out |-> <<>>,
           prev |-> PREV0]

PrevOf(p) == [op |-> p.op, arg |-> p.arg, key |-> p.key, err |-> p.err,
              calls |-> p.calls]

\* offer ids as the source writes them: lower case, Cyrillic look-alikes,
\* dashes and blanks; one the catalog does not hold (in two spellings), a
\* product without prices, a bundle of more components than one request
\* returns
ProbeOffers ==
    {<<"a", "1">>, <<" ", "cyra", "1">>, <<"A", "1">>,
     <<"cyrK", " ", "endash", "1", " ">>, <<"K", "-", "1">>,
     <<"X", "9">>, <<" ", "X", "9">>, <<"P", "0">>, <<"B", "9">>}

ProbeItems ==
    {[offer_id |-> <<"a", "1">>, quantity |-> 2],
     [offer_id |-> <<"cyrK", " ", "endash", "1", " ">>, quantity |-> 3],
     [offer_id |-> <<"A", "1">>, quantity |-> NOQTY],
     [offer_id |-> <<"X", "9">>, quantity |-> 1],
     [offer_id |-> <<"B", "9">>, quantity |-> 2]}

ProbeItemLists ==
    {<<a>> : a \in ProbeItems} \cup {<<a, b>> : a \in ProbeItems, b \in ProbeItems}

\* window start (sync.py 195-197)
StartDateMin(t) == IF MinDate < t - LookbackDays THEN MinDate ELSE t - LookbackDays
StartDate(t) == IF MinDate > t - LookbackDays THEN MinDate ELSE t - LookbackDays

Init ==
    /\ cfg \in Configs
    /\ today = MinDate
    /\ src \in {f \in [1..NumOrders -> UNION {SampleOrders(i) : i \in 1..NumOrders}] :
                    \A i \in 1..NumOrders : f[i] \in SampleOrders(i)}
    /\ events = 0
    /\ sales = [n \in Names |-> 0]
    /\ sales_lines = [n \in Names |-> <<>>]
    /\ moves \in {f \in [Names -> 0..1] : \A n \in Names \ {Num(1)} : f[n] = 0}
    /\ supplies_mem = <<>>
    /\ supplies_file = <<>>
    /\ assort_cache = <<>>
    /\ assort_file = <<>>
    /\ pc = "sleep"
    /\ orders = <<>>
    /\ idx = 0
    /\ start_dt = 0
    /\ counts = COUNTS0
    /\ loc = LOC0
    /\ h = H0
    /\ hp = HP0
    /\ probe = PROBE0

\* `if cfg.dry_run:` (sync.py 396 and 431)
DryRunOff(c) == FALSE
DryRunAlways(c) == TRUE
DryRun(c) == c.dry_run

\* ---------------------------------------------------------- ERP lookups
\* GET /entity/customerorder?filter=name=...: rows[0] or None, as "found"
find_customerorder_by_name_never(docs, name) == FALSE
find_customerorder_by_name(docs, name) == docs[name] > 0

\* GET /entity/move?filter=name=...
find_move_by_name_never(docs, name) == FALSE
find_move_by_name(docs, name) == docs[name] > 0

\* -------------------------------------------- sync_once: order selection
IsCancelledNever(state) == FALSE
IsCancelled(state) == state \in CANCELLED_STATES

BeforeWindowLe(ts_dt, start) == ts_dt <= start
BeforeWindow(ts_dt, start) == ts_dt < start

SameStateReadyOff(had, mem, state) == FALSE
SameStateReady(had, mem, state) ==
    had /\ mem.state = state /\ state = "READY_TO_SUPPLY"

\* sync.py 247-305: the reason an order is skipped before any ERP call,
\* or "go" when it is not
Select(det, mem, start) ==
    IF det.order_id = NOID THEN "no_id"
    ELSE IF det.order_number = "" THEN "missing_order_number"
    ELSE IF IsCancelled(det.state) THEN "cancelled"
    ELSE IF det.timeslot.kind = "none" THEN "no_timeslot"
    ELSE IF det.timeslot.kind = "bad" THEN "bad_timeslot"
    ELSE IF BeforeWindow(ParseIso(det.timeslot), start) THEN "timeslot_before_window"
    ELSE IF SameStateReady(det.order_id \in DOMAIN mem, Get(mem, det.order_id),
                           det.state)
    THEN "same_state_ready"
    ELSE "go"

\* history of the order at position i, as its processing starts
HStart(i) ==
    LET det == orders[i]
    IN [H0 EXCEPT !.i = i,
                  !.had0 = det.order_id \in DOMAIN supplies_mem,
                  !.mem0 = Get(supplies_mem, det.order_id),
                  !.co0 = det.order_number \in Names /\ sales[det.order_number] > 0,
                  !.mv0 = det.order_number \in Names /\ moves[det.order_number] > 0,
                  !.c0 = counts]

\* `skipped += 1; continue`
SkipOrder ==
    /\ counts' = [counts EXCEPT !.skipped = @ + 1]
    /\ idx' = idx + 1
    /\ pc' = "order"
    /\ loc' = LOC0

\* ------------------------------------------------------------- actions
\* main.py 77-79 and sync.py 195-245: a pass starts; the listing is drained
\* and the details of every listed order are fetched
StartPass ==
    /\ pc = "sleep"
    /\ today' \in {t \in {today, MinDate + MaxDaysOn} : t >= today}
    /\ start_dt' = DayStart(StartDate(today'))
    /\ \E pages \in SourcePagings :
          orders' = get_supply_orders(src, DrainListing(pages, "").order_ids)
    /\ idx' = 1
    /\ counts' = COUNTS0
    /\ pc' = "order"
    /\ loc' = LOC0
    /\ h' = H0
    /\ hp' = [hp EXCEPT !.wrote = FALSE, !.forgot = FALSE]
    /\ UNCHANGED <<sales_lines, probe, cfg, src, events, sales, moves, supplies_mem, supplies_file,
                   assort_cache, assort_file>>

\* sync.py 246-403: one order, from the top of the loop body to the point
\* where the sales document is known (found, simulated) or its POST begins
ProcessOrder ==
    /\ pc = "order"
    /\ idx <= Len(orders)
    /\ LET det == orders[idx]
           sel == Select(det, supplies_mem, start_dt)
           bp == BuildPositions(assort_cache, bundle_items_all(det.bundle_id))
           h0 == HStart(idx)
           h1 == [h0 EXCEPT !.called = TRUE]
       IN IF sel # "go"
          THEN /\ supplies_mem' = IF sel = "cancelled"
                                  THEN PopCancelled(supplies_mem, det.order_id)
                                  ELSE supplies_mem
               /\ SkipOrder
               /\ h' = [h0 EXCEPT !.path = sel]
               /\ UNCHANGED <<assort_cache, hp>>
          ELSE IF det.bundle_id = ""
          THEN /\ SkipOrder
               /\ h' = [h1 EXCEPT !.path = "bundle_id_missing"]
               /\ UNCHANGED <<supplies_mem, assort_cache, hp>>
          ELSE IF bp.errors > 0
          THEN /\ SkipOrder
               /\ assort_cache' = bp.cache
               /\ h' = [h1 EXCEPT !.path = "resolve_failed"]
               /\ UNCHANGED <<supplies_mem, hp>>
          ELSE /\ assort_cache' = bp.cache
               /\ UNCHANGED <<supplies_mem, counts, idx>>
               /\ IF find_customerorder_by_name(sales, det.order_number)
                  THEN /\ loc' = [LOC0 EXCEPT !.existing = TRUE,
                                              !.co = [name |-> det.order_number, n |-> 1],
                                              !.positions = bp.positions]
                       /\ pc' = "move"
                       /\ h' = h1
                       /\ hp' = hp
                  ELSE IF DryRun(cfg)
                  THEN /\ loc' = [LOC0 EXCEPT !.co = DRYDOC, !.positions = bp.positions]
                       /\ pc' = "move"
                       /\ h' = h1
                       /\ hp' = hp
                  ELSE /\ loc' = [LOC0 EXCEPT !.positions = bp.positions, !.attempt = 1]
                       /\ pc' = "co_send"
                       /\ h' = [h1 EXCEPT !.co_calls = 1]
                       /\ hp' = [hp EXCEPT !.wrote = TRUE]
    /\ UNCHANGED <<sales_lines, probe, cfg, today, src, events, sales, moves,
                   supplies_file, assort_file, orders, start_dt>>

\* http_client.py 65-96 under ms.create_customerorder (sync.py 402-403): one
\* attempt of POST /entity/customerorder. Every failure is caught at line 89
\* and the request is sent again until max_attempts is reached.
SendCustomerOrder ==
    /\ pc = "co_send"
    /\ \E o \in SendOutcomes :
          LET num == orders[idx].order_number
              n1 == sales[num] + 1
              hm == [h EXCEPT !.co_made = @ \/ Commits(o)]
          IN /\ o.kind = "lost" => events < MaxEvents
             /\ events' = IF o.kind = "lost" THEN events + 1 ELSE events
             /\ sales' = IF Commits(o) THEN [sales EXCEPT ![num] = n1] ELSE sales
             /\ sales_lines' = IF Commits(o)
                               THEN [sales_lines EXCEPT ![num] = Append(@, loc.positions)]
                               ELSE sales_lines
             /\ IF o.kind = "ok"
                THEN /\ loc' = [loc EXCEPT !.co = [name |-> num, n |-> n1],
                                           !.attempt = 0]
                     /\ counts' = [counts EXCEPT !.created = @ + 1]
                     /\ pc' = "move"
                     /\ h' = hm
                ELSE IF loc.attempt >= RetryMax
                THEN /\ pc' = "raised"
                     /\ h' = [hm EXCEPT !.path = "raised_co", !.err = o]
                     /\ UNCHANGED <<loc, counts>>
                ELSE /\ loc' = [loc EXCEPT !.attempt = @ + 1]
                     /\ h' = hm
                     /\ UNCHANGED <<pc, counts>>
    /\ UNCHANGED <<probe, cfg, today, src,  moves, supplies_mem, supplies_file,
                   assort_cache, assort_file, orders, idx, start_dt, hp>>

\* sync.py 405-444: the move lookup, the forget, the move body (which reads
\* cfg.ms_move_*), the dry-run memory write, or the start of the move's POST
EnsureMove ==
    /\ pc = "move"
    /\ LET det == orders[idx]
       IN IF find_move_by_name(moves, det.order_number)
          THEN /\ supplies_mem' = PopMoveExists(supplies_mem, det.order_id)
               /\ SkipOrder
               /\ h' = [h EXCEPT !.path = "move_exists_forget"]
               /\ hp' = hp
          ELSE IF ~cfg.move_ids
          THEN /\ pc' = "raised"
               /\ h' = [h EXCEPT !.path = "raised_cfg"]
               /\ UNCHANGED <<supplies_mem, counts, idx, loc, hp>>
          ELSE IF DryRun(cfg)
          THEN /\ supplies_mem' = Put(supplies_mem, det.order_id,
                                      Entry(det.order_number, det.state, TRUE,
                                            NODOC, NODOC, FALSE))
               /\ SkipOrder
               /\ h' = [h EXCEPT !.path = "dry_run"]
               /\ hp' = hp
          ELSE /\ loc' = [loc EXCEPT !.applicable = TRUE, !.attempt = 1]
               /\ pc' = "mv_send"
               /\ h' = [h EXCEPT !.mv_calls = 1]
               /\ hp' = [hp EXCEPT !.wrote = TRUE]
               /\ UNCHANGED <<supplies_mem, counts, idx>>
    /\ UNCHANGED <<sales_lines, probe, cfg, today, src, events, sales, moves,
                   supplies_file, assort_cache, assort_file, orders, start_dt>>

\* what sync.py 445-456 does with the HttpError of the first create_move
ClassifyStockOnly(e) == IF _is_stock_error(e) THEN "stock" ELSE "other"

ClassifyStockFirst(e) ==
    IF _is_stock_error(e) THEN "stock"
    ELSE IF _is_name_conflict(e) THEN "conflict"
    ELSE "other"

Classify(e) ==
    IF _is_name_conflict(e) THEN "conflict"
    ELSE IF _is_stock_error(e) THEN "stock"
    ELSE "other"

\* http_client.py 65-96 under ms.create_move (sync.py 442-463): one attempt
\* of POST /entity/move, and what sync_once does when the call returns or
\* raises. loc.retry tells the first call (line 444) from the second one
\* (line 454), which no handler surrounds.
SendMove ==
    /\ pc = "mv_send"
    /\ \E o \in SendOutcomes :
          LET det == orders[idx]
              num == det.order_number
              n1 == moves[num] + 1
              hm == [h EXCEPT !.mv_made = @ \/ Commits(o)]
              class == IF ~loc.retry /\ o.kind = "http" THEN Classify(o)
                       ELSE "other"
          IN /\ o.kind = "lost" => events < MaxEvents
             /\ events' = IF o.kind = "lost" THEN events + 1 ELSE events
             /\ moves' = IF Commits(o) THEN [moves EXCEPT ![num] = n1] ELSE moves
             /\ IF o.kind = "ok"
                THEN /\ supplies_mem' =
                            Put(supplies_mem, det.order_id,
                                Entry(num, det.state, FALSE, loc.co,
                                      [name |-> num, n |-> n1], loc.applicable))
                     /\ idx' = idx + 1
                     /\ pc' = "order"
                     /\ loc' = LOC0
                     /\ h' = [hm EXCEPT !.path = "done"]
                     /\ UNCHANGED <<counts, hp>>
                ELSE IF loc.attempt < RetryMax
                THEN /\ loc' = [loc EXCEPT !.attempt = @ + 1]
                     /\ h' = hm
                     /\ UNCHANGED <<supplies_mem, idx, pc, counts, hp>>
                ELSE IF class = "conflict"
                THEN /\ supplies_mem' = PopConflict(supplies_mem, det.order_id)
                     /\ SkipOrder
                     /\ h' = [hm EXCEPT !.path = "name_conflict_forget",
                                       !.err1 = o, !.err = o]
                     /\ hp' = [hp EXCEPT !.forgot = TRUE]
                ELSE IF class = "stock"
                THEN /\ loc' = [loc EXCEPT !.applicable = RetryApplicable,
                                           !.retry = TRUE, !.attempt = 1]
                     /\ h' = [hm EXCEPT !.mv_calls = @ + 1, !.err1 = o]
                     /\ UNCHANGED <<supplies_mem, idx, pc, counts, hp>>
                ELSE /\ pc' = "raised"
                     /\ h' = [hm EXCEPT !.path = "raised_mv", !.err = o,
                                       !.err1 = IF ~loc.retry THEN o ELSE @]
                     /\ UNCHANGED <<supplies_mem, idx, loc, counts, hp>>
    /\ UNCHANGED <<sales_lines, probe, cfg, today, src,  sales, supplies_file, assort_cache,
                   assort_file, orders, start_dt>>

\* a read (a source call, an ERP lookup or a catalog query) exhausts the
\* transport's attempts: the exception leaves sync_once
ReadFail ==
    /\ \/ /\ pc = "order"
          /\ idx <= Len(orders)
          /\ Select(orders[idx], supplies_mem, start_dt) = "go"
          /\ LET items == bundle_items_all(orders[idx].bundle_id)
                 last == IF Len(items) = 0 THEN 0 ELSE Len(items) - 1
             IN \E k \in 0..last :
                   assort_cache' = BuildPositions(assort_cache, SubSeq(items, 1, k)).cache
          /\ h' = [HStart(idx) EXCEPT !.path = "raised_read", !.called = TRUE]
       \/ /\ pc = "move"
          /\ h' = [h EXCEPT !.path = "raised_read"]
          /\ UNCHANGED assort_cache
    /\ pc' = "raised"
    /\ UNCHANGED <<sales_lines, probe, cfg, today, src, events, sales, moves,
                   supplies_mem, supplies_file, orders, idx, start_dt, counts, loc, hp,
                   assort_file>>

\* save_json of both maps (main.py 81-82, 92-93)
SaveBoth ==
    /\ supplies_file' = supplies_mem
    /\ assort_file' = assort_cache

\* the locals of sync_once are gone once it has returned or raised
PassOver ==
    /\ pc' = "sleep"
    /\ orders' = <<>>
    /\ idx' = 0
    /\ start_dt' = 0
    /\ counts' = COUNTS0
    /\ loc' = LOC0
    /\ h' = H0

\* main.py 80-82, 97: sync_once returned; save and sleep
CycleDone ==
    /\ pc = "order"
    /\ idx > Len(orders)
    /\ SaveBoth
    /\ PassOver
    /\ hp' = [hp EXCEPT !.prev = IF cfg.dry_run \/ Len(orders) < NumOrders
                                 THEN "none"
                                 ELSE IF hp.forgot THEN "normal" ELSE "clean"]
    /\ UNCHANGED <<sales_lines, probe, cfg, today, src, events, sales, moves,
                   supplies_mem, assort_cache>>

\* main.py 88-97: sync_once raised; save and sleep
CycleErrorExit ==
    /\ pc = "raised"
    /\ pc' = "exit"
    /\ UNCHANGED <<sales_lines, probe, cfg, today, src, events, sales, moves, supplies_mem,
                   supplies_file, assort_cache, assort_file, orders, idx, start_dt,
                   counts, loc, h, hp>>

CycleError ==
    /\ pc = "raised"
    /\ SaveBoth
    /\ PassOver
    /\ hp' = [hp EXCEPT !.prev = "failed"]
    /\ UNCHANGED <<sales_lines, probe, cfg, today, src, events, sales, moves,
                   supplies_mem, assort_cache>>

\* the process dies at any point and is started again (main.py 27-75): the
\* maps are what the files hold, the environment (FBO_DRY_RUN) is read anew
Restart ==
    /\ events < MaxEvents
    /\ events' = events + 1
    /\ cfg' \in {c \in Configs : c.move_ids = cfg.move_ids}
    /\ supplies_mem' = supplies_file
    /\ assort_cache' = assort_file
    /\ PassOver
    /\ hp' = HP0
    /\ UNCHANGED <<sales_lines, probe, today, src, sales, moves, supplies_file,
                   assort_file>>

\* KeyboardInterrupt (main.py 83-87): the signal is raised wherever the main
\* thread is. Inside the try block (sync_once, the saves of lines 81-82) it
\* is caught at line 83, both maps are saved and main returns; inside the
\* `except Exception` handler or in time.sleep nothing catches it and the
\* process ends without a save.
ExitNoSave ==
    /\ pc \in {"raised", "sleep"}
    /\ UNCHANGED <<supplies_file, assort_file>>

Stop ==
    /\ pc \in {"order", "co_send", "move", "mv_send", "raised", "sleep"}
    /\ events < MaxEvents
    /\ events' = events + 1
    /\ IF pc \in {"raised", "sleep"} THEN ExitNoSave ELSE SaveBoth
    /\ pc' = "exit"
    /\ orders' = <<>>
    /\ idx' = 0
    /\ start_dt' = 0
    /\ counts' = COUNTS0
    /\ loc' = LOC0
    /\ h' = H0
    /\ hp' = [HP0 EXCEPT !.stop_pc = pc,
                         !.stop_co = pc = "move" /\ h.co_made]
    /\ UNCHANGED <<sales_lines, probe, cfg, today, src, sales, moves, supplies_mem, assort_cache>>

\* the order source revises one of its orders while the process sleeps
SourceRevise ==
    /\ pc = "sleep"
    /\ events < MaxEvents
    /\ \E i \in 1..NumOrders : \E o \in Revised(src[i]) :
          src' = [src EXCEPT ![i] = o]
    /\ events' = events + 1
    /\ hp' = [hp EXCEPT !.prev = "none"]
    /\ UNCHANGED <<sales_lines, probe, cfg, today, sales, moves, supplies_mem, supplies_file,
                   assort_cache, assort_file, pc, orders, idx, start_dt, counts, loc, h>>

Next ==
    \/ StartPass
    \/ ProcessOrder
    \/ SendCustomerOrder
    \/ EnsureMove
    \/ SendMove
    \/ ReadFail
    \/ CycleDone
    \/ CycleError
    \/ Restart
    \/ Stop
    \/ SourceRevise

Spec == Init /\ [][Next]_vars

\* main's loop is sequential code: a handler that has been entered runs to
\* its end and the sleep returns
LiveSpec == Spec /\ WF_vars(CycleError) /\ WF_vars(StartPass)

\* ------------------------------------------ the helpers called directly
\* the maps as main.py 74-75 loads them: empty files, or an assortments
\* file an earlier run has left
InitProbe ==
    /\ cfg = [dry_run |-> TRUE, move_ids |-> FALSE]
    /\ today = MinDate
    /\ src = <<>>
    /\ events = 0
    /\ sales = [n \in Names |-> 0]
    /\ sales_lines = [n \in Names |-> <<>>]
    /\ moves = [n \in Names |-> 0]
    /\ supplies_mem = <<>>
    /\ supplies_file = <<>>
    /\ assort_cache \in {<<>>, resolve_assortment(<<>>, <<"A", "1">>).cache}
    /\ assort_file = assort_cache
    /\ pc = "probe"
    /\ orders = <<>>
    /\ idx = 0
    /\ start_dt = 0
    /\ counts = COUNTS0
    /\ loc = LOC0
    /\ h = H0
    /\ hp = HP0
    /\ probe = PROBE0

ProbeFrame ==
    UNCHANGED <<sales_lines, cfg, today, src, events, sales, moves, supplies_mem, supplies_file,
                assort_file, pc, orders, idx, start_dt, counts, loc, h, hp>>

\* resolve_assortment(logger, ms, assort_cache, offer_id)
ProbeResolve ==
    /\ pc = "probe"
    /\ probe.n < MaxProbes
    /\ \E offer \in ProbeOffers :
          LET r == resolve_assortment(assort_cache, offer)
          IN /\ assort_cache' = r.cache
             /\ probe' = [PROBE0 EXCEPT !.op = "resolve", !.n = probe.n + 1,
                                        !.arg = offer,
                                        !.key = normalize_offer_id(offer),
                                        !.before = assort_cache,
                                        !.rec = r.rec, !.err = r.err,
                                        !.calls = r.calls,
                                        !.prev = PrevOf(probe)]
    /\ ProbeFrame

\* the loop over oz_items of sync.py 341-370
ProbePositions ==
    /\ pc = "probe"
    /\ probe.n < MaxProbes
    /\ \E items \in ProbeItemLists :
          LET bp == BuildPositions(assort_cache, items)
          IN /\ assort_cache' = bp.cache
             /\ probe' = [PROBE0 EXCEPT !.op = "positions", !.n = probe.n + 1,
                                        !.arg = items,
                                        !.before = assort_cache,
                                        !.errors = bp.errors,
                                        !.out = bp.positions,
                                        !.prev = PrevOf(probe)]
    /\ ProbeFrame

\* the listing loop of sync.py 210-225
ProbeListing ==
    /\ pc = "probe"
    /\ probe.n < MaxProbes
    /\ \E pages \in SourcePagings :
          LET d == DrainListing(pages, "")
          IN probe' = [PROBE0 EXCEPT !.op = "list", !.n = probe.n + 1,
                                     !.arg = pages,
                                     !.before = assort_cache,
                                     !.calls = d.calls,
                                     !.out = d.order_ids,
                                     !.prev = PrevOf(probe)]
    /\ UNCHANGED assort_cache
    /\ ProbeFrame

\* JsonHttpClient.request(method, path, ...)
ProbeRequest ==
    /\ pc = "probe"
    /\ probe.n < MaxProbes
    /\ \E a \in RequestArgs :
          probe' = [PROBE0 EXCEPT !.op = "request", !.n = probe.n + 1,
                                  !.arg = a,
                                  !.before = assort_cache,
                                  !.err = request(a.max_attempts, a.answers).raised,
                                  !.calls = request(a.max_attempts, a.answers).sent,
                                  !.prev = PrevOf(probe)]
    /\ UNCHANGED assort_cache
    /\ ProbeFrame

ProbeNext ==
    \/ ProbeResolve
    \/ ProbePositions
    \/ ProbeListing

ProbeSpec == InitProbe /\ [][ProbeNext]_vars

\* the transport called directly, one request after another
TransportNext == ProbeRequest

TransportSpec == InitProbe /\ [][TransportNext]_vars

\* ==================================================================
\* Properties
\* ==================================================================
\* the classes of section 4.3, written from the wording of the claims
ConflictClass(e) ==
    /\ e.kind = "http"
    /\ \/ e.status \in {409, 412, 422}
       \/ ("name" \in e.body /\ e.body \cap {"uzhe", "exists", "unique"} # {})

StockClass(e) ==
    /\ e.kind = "http"
    /\ ~ConflictClass(e)
    /\ e.body \cap {"ostat", "stock", "not enough", "nedostat", "available",
                    "quantity"} # {}

\* the order h tells about, once its processing has ended
Ended == h.path # ""
EndedOrder == orders[h.i]
EndedId == orders[h.i].order_id
NoWrites == h.co_calls = 0 /\ h.mv_calls = 0
EntryUntouched ==
    /\ (EndedId \in DOMAIN supplies_mem) = h.had0
    /\ Get(supplies_mem, EndedId) = h.mem0
WriteFailed == h.path \in {"raised_co", "raised_mv"}

\* C1: the ERP never holds more than one sales document and never more than
\* one transfer document of the same name, whatever the passes, restarts and
\* transport retries.
C1_AtMostOneDocumentPerName ==
    \A n \in Names : sales[n] <= 1 /\ moves[n] <= 1

C3_ExistingTransferForgets ==
    (Ended /\ ~WriteFailed /\ h.path # "raised_read" /\ h.path # "raised_cfg" /\ h.mv0)
        => (EndedId \notin DOMAIN supplies_mem /\ NoWrites)

\* C3 amended: an order taken as far as the transfer lookup while a transfer
\* document of its name exists ends forgotten, with no create_move call; a
\* create_customerorder call was made before the lookup exactly when no
\* sales document of that name was found and the pass is live.
ReachedLookup ==
    h.path \in {"move_exists_forget", "dry_run", "name_conflict_forget", "done",
                "raised_cfg", "raised_mv"}

C3_LookupFindsTransferForgets ==
    (ReachedLookup /\ h.mv0)
        => /\ h.path = "move_exists_forget"
           /\ EndedId \notin DOMAIN supplies_mem
           /\ h.mv_calls = 0
           /\ h.co_calls = (IF ~h.co0 /\ ~cfg.dry_run THEN 1 ELSE 0)

\* an entry was there and the lookup's finding removed it
C3_Witness ==
    /\ h.path = "move_exists_forget"
    /\ h.mv0
    /\ h.had0
    /\ EndedId \notin DOMAIN supplies_mem

\* C4: a first create_move call that ends with a stock-classified error is
\* followed by exactly one more call, non-binding; that call's success
\* writes the entry, its failure leaves sync_once, and there is no third.
C4_StockFallbackOnce ==
    [][/\ h'.mv_calls <= 2
       /\ (pc = "mv_send" /\ h'.i = h.i /\ h.err1 = NOERR /\ StockClass(h'.err1))
            => (h'.mv_calls = 2 /\ pc' = "mv_send" /\ ~loc'.applicable)
       /\ (h'.mv_calls = 2 /\ h.mv_calls = 1)
            => (StockClass(h'.err1) /\ ~loc'.applicable /\ pc' = "mv_send")
       /\ (pc = "mv_send" /\ h.mv_calls = 2 /\ h'.i = h.i /\ pc' # "mv_send")
            => \/ /\ h'.path = "done"
                  /\ EndedId \in DOMAIN supplies_mem'
                  /\ ~supplies_mem'[EndedId].applicable
                  /\ ~supplies_mem'[EndedId].dry
               \/ /\ pc' = "raised"
                  /\ h'.path = "raised_mv"
                  /\ supplies_mem' = supplies_mem
      ]_vars

\* the non-binding call succeeded and the entry records it
C4_Witness ==
    /\ h.path = "done"
    /\ h.mv_calls = 2
    /\ StockClass(h.err1)
    /\ EndedId \in DOMAIN supplies_mem
    /\ ~supplies_mem[EndedId].applicable

\* C5: when a create call of an order fails with an unclassified error or
\* the transport gives up, the orders after it are still processed in the
\* pass and the failing order's entry is what it was. (pc = "raised": the
\* exception has left sync_once and main's handler is next.)
C5_WriteFailureConfined ==
    (pc = "raised" /\ WriteFailed) => (h.i = Len(orders) /\ EntryUntouched)

\* C6 as stated: a create_move call that fails with a conflict-classified
\* error never makes an exception leave the order's processing.
C6_TransferConflictForgets ==
    /\ (h.path = "raised_mv") => ~ConflictClass(h.err)
    /\ (h.path = "name_conflict_forget") => EndedId \notin DOMAIN supplies_mem

\* C6 amended: when the first create_move call of an order fails with a
\* conflict-classified error, the entry is removed, nothing is raised, no
\* second create_move call is made and the pass is at the next order.
C6_FirstTransferConflictForgets ==
    ConflictClass(h.err1)
        => /\ h.path = "name_conflict_forget"
           /\ EndedId \notin DOMAIN supplies_mem
           /\ h.mv_calls = 1
           /\ pc = "order"
           /\ idx = h.i + 1

\* an entry was there and the conflict removed it
C6_Witness ==
    /\ h.path = "name_conflict_forget"
    /\ ConflictClass(h.err1)
    /\ h.had0
    /\ idx <= Len(orders)

\* C7: a create_customerorder call that fails with a conflict-classified
\* error does not make an exception leave the order's processing (the entry
\* is removed instead).
C7_SalesConflictForgets ==
    (h.path = "raised_co") => ~ConflictClass(h.err)

\* C8: after a cancelled order has been processed the memory holds no entry
\* for its id, and no create call was made for it.
C8_CancelledForgotten ==
    (Ended /\ EndedOrder.state \in CANCELLED_STATES /\ EndedId # NOID)
        => (EndedId \notin DOMAIN supplies_mem /\ ~h.called /\ NoWrites)

\* C9: window start is max(MinDate, today - LookbackDays) at 00:00 UTC; a
\* non-cancelled order with a timeslot before it, or with none, or with one
\* that does not parse, is skipped without any call and with its entry as it
\* was; one with a timeslot at or after it is not skipped by the window
\* check.
WindowStart ==
    HoursPerDay * (IF MinDate >= today - LookbackDays THEN MinDate
                   ELSE today - LookbackDays)

UtcHour(ts) == ts.h - ts.off

SkippedUntouched ==
    /\ h.path \in {"no_id", "missing_order_number", "no_timeslot", "bad_timeslot",
                   "timeslot_before_window"}
    /\ ~h.called
    /\ NoWrites
    /\ EntryUntouched

C9_WindowFilter ==
    (Ended /\ EndedOrder.state \notin CANCELLED_STATES)
        => /\ (EndedOrder.timeslot.kind = "iso"
                  /\ UtcHour(EndedOrder.timeslot) < WindowStart) => SkippedUntouched
           /\ (EndedOrder.timeslot.kind = "iso"
                  /\ UtcHour(EndedOrder.timeslot) >= WindowStart)
                 => h.path # "timeslot_before_window"
           /\ (EndedOrder.timeslot.kind # "iso") => SkippedUntouched

\* an order that has an entry is skipped for lying before the window, and
\* another pass takes an order whose timeslot is the window start itself
C9_Witness ==
    /\ h.path = "timeslot_before_window"
    /\ h.had0

C9_WitnessIn ==
    /\ Ended
    /\ EndedOrder.timeslot.kind = "iso"
    /\ UtcHour(EndedOrder.timeslot) = WindowStart
    /\ h.called

\* C10: a create call is made for an order only when every item of its
\* bundle was resolved and has line items in the document.
ItemResolved(oi) ==
    /\ oi.offer_id # <<>>
    /\ BuildRecord(normalize_offer_id(oi.offer_id)).err = ""

C10_NoPartialDocuments ==
    (h.i > 0 /\ ~NoWrites)
        => \A k \in 1..Len(bundle_items_all(orders[h.i].bundle_id)) :
               ItemResolved(bundle_items_all(orders[h.i].bundle_id)[k])

\* C11: while the dry-run flag is set no step changes the documents the ERP
\* holds, no POST is under way and no create call has been made for the
\* order in hand.
C11_DryRunNoWrites ==
    [][cfg.dry_run
          => /\ sales' = sales
             /\ moves' = moves
             /\ pc \notin {"co_send", "mv_send"}
             /\ h.co_calls = 0 /\ h.mv_calls = 0]_vars

\* a dry-run pass took an order with no sales document to the simulated
\* transfer and wrote its entry
C11_Witness ==
    /\ cfg.dry_run
    /\ h.path = "dry_run"
    /\ ~h.co0
    /\ EndedId \in DOMAIN supplies_mem
    /\ supplies_mem[EndedId].dry

\* C12: an order that a dry-run pass takes to the simulated transfer changes
\* (created, skipped) and the memory as a live pass whose writes succeed
\* does: created grows by one exactly when no sales document of its name was
\* found, skipped does not grow, and the entry carries the order's number and
\* state. (The live half, path "done", is C12_LiveOrderCounts.)
OrderCountedAsLive ==
    /\ counts.created - h.c0.created = (IF h.co0 THEN 0 ELSE 1)
    /\ counts.skipped = h.c0.skipped
    /\ EndedId \in DOMAIN supplies_mem
    /\ supplies_mem[EndedId].order_number = EndedOrder.order_number
    /\ supplies_mem[EndedId].state = EndedOrder.state

C12_LiveOrderCounts ==
    (~cfg.dry_run /\ h.path = "done") => OrderCountedAsLive

C12_DryRunMirrorsLive ==
    (h.path \in {"dry_run", "done"}) => OrderCountedAsLive

\* C13: in live mode, when the processing of an order has ended after the ERP
\* stored a sales or a transfer document for it in this pass, the memory
\* holds a live entry of that order id that records the document.
C13_DocumentImpliesMemory ==
    (Ended /\ ~cfg.dry_run /\ (h.co_made \/ h.mv_made))
        => /\ EndedId \in DOMAIN supplies_mem
           /\ ~supplies_mem[EndedId].dry
           /\ h.co_made => supplies_mem[EndedId].ms.name = EndedOrder.order_number
           /\ h.mv_made => supplies_mem[EndedId].move.name = EndedOrder.order_number

C19_StopBetweenOrders ==
    (pc = "exit")
        => /\ hp.stop_pc \notin {"co_send", "move", "mv_send"}
           /\ ~hp.stop_co
           /\ supplies_file = supplies_mem

\* C14: the positions built for a list of items that all resolve are, item
\* after item, one line of the item's quantity q at the product's price for
\* a product, and for a bundle one line per component of the resolved
\* record, in the record's order, of quantity q * qty_i at price_i.
RECURSIVE ExpansionOf(_, _)
ExpansionOf(items, cache) ==
    IF items = <<>> THEN <<>>
    ELSE LET q == Head(items).quantity
             rec == cache[normalize_offer_id(Head(items).offer_id)]
         IN (IF rec.kind = "product"
             THEN <<[quantity |-> q, price |-> rec.price, assortment |-> rec.meta]>>
             ELSE [i \in 1..Len(rec.components) |->
                      [quantity |-> q * rec.components[i].qty,
                       price |-> rec.components[i].price,
                       assortment |-> rec.components[i].meta]])
            \o ExpansionOf(Tail(items), cache)

C14_BundleExpansion ==
    (/\ probe.op = "positions"
     /\ probe.errors = 0
     /\ \A i \in 1..Len(probe.arg) : probe.arg[i].quantity # NOQTY)
        => probe.out = ExpansionOf(probe.arg, assort_cache)

\* three of the bundle K-1 (two of p1 at 100, one of v1 at 50) and two of the
\* product A1 (p1 at 100) were expanded
C14_Witness ==
    /\ probe.op = "positions"
    /\ probe.arg = <<[offer_id |-> <<"cyrK", " ", "endash", "1", " ">>, quantity |-> 3],
                     [offer_id |-> <<"a", "1">>, quantity |-> 2]>>
    /\ probe.errors = 0
    /\ probe.out = <<[quantity |-> 6, price |-> 100, assortment |-> "p1"],
                     [quantity |-> 3, price |-> 50, assortment |-> "v1"],
                     [quantity |-> 2, price |-> 100, assortment |-> "p1"]>>

\* C15 as stated: of two successive resolve_assortment calls on one cache
\* whose offer ids have the same normal form, the second makes no catalog
\* request.
SameFormTwice ==
    /\ probe.op = "resolve"
    /\ probe.prev.op = "resolve"
    /\ probe.key = probe.prev.key

C15_SecondResolveNoRequest ==
    SameFormTwice => probe.calls = 0

\* C15 amended: ... when the first of the two calls returned a record, the
\* second makes no catalog request.
C15_SecondResolveAfterHit ==
    (SameFormTwice /\ probe.prev.err = "") => probe.calls = 0

\* two spellings of one article: the first call asked the catalog, the
\* second did not
C15_Witness ==
    /\ SameFormTwice
    /\ probe.arg # probe.prev.arg
    /\ probe.prev.err = ""
    /\ probe.prev.calls > 0
    /\ probe.calls = 0

\* C16: no step changes or removes a record the cache holds; a resolve of an
\* article the cache holds returns the held record without a catalog
\* request; a resolve that returns an error leaves the cache as it was.
C16_CachedRecordsImmutable ==
    /\ [][\A k \in DOMAIN assort_cache :
              k \in DOMAIN assort_cache' /\ assort_cache'[k] = assort_cache[k]]_vars
    /\ [](probe.op = "resolve"
            => /\ (probe.key \in DOMAIN probe.before)
                     => /\ probe.rec = probe.before[probe.key]
                        /\ probe.err = ""
                        /\ probe.calls = 0
               /\ (probe.err # "") => assort_cache = probe.before)

\* a bundle record was stored, a resolve of another article failed, and the
\* bundle's article was then resolved from the cache
C16_Witness ==
    /\ probe.op = "resolve"
    /\ probe.key \in DOMAIN probe.before
    /\ probe.rec.kind = "bundle"
    /\ probe.calls = 0
    /\ probe.prev.op = "resolve"
    /\ probe.prev.err # ""
    /\ probe.prev.calls > 0

\* C17: a bundle record holds one component entry for every component the
\* catalog holds for the bundle.
C17_AllComponentsCached ==
    \A k \in DOMAIN assort_cache :
        assort_cache[k].kind = "bundle"
            => Len(assort_cache[k].components) = Len(BundleComponents(assort_cache[k].meta))

\* C20: the candidate list is the concatenation of the order ids of the
\* pages up to the first page that carries no cursor.
RECURSIVE IdsUntilNoCursor(_)
IdsUntilNoCursor(pages) ==
    IF pages = <<>> THEN <<>>
    ELSE Head(pages).order_ids
         \o (IF Head(pages).last_id = "" THEN <<>> ELSE IdsUntilNoCursor(Tail(pages)))

C20_ListingDrained ==
    (probe.op = "list") => probe.out = IdsUntilNoCursor(probe.arg)

\* C21: an order that is not cancelled, whose timeslot lies in the window,
\* and whose entry, as its processing began, held the state now observed,
\* that state being READY_TO_SUPPLY, ends without any call to the ERP or for
\* its bundle items and without a create call, its entry as it was, and
\* skipped grown by one.
InWindow(o) == o.timeslot.kind = "iso" /\ UtcHour(o.timeslot) >= WindowStart

C21_SameStateFastPath ==
    (/\ Ended
     /\ EndedOrder.state \notin CANCELLED_STATES
     /\ InWindow(EndedOrder)
     /\ h.had0
     /\ h.mem0.state = EndedOrder.state
     /\ EndedOrder.state = "READY_TO_SUPPLY")
        => /\ ~h.called
           /\ NoWrites
           /\ EntryUntouched
           /\ counts.skipped = h.c0.skipped + 1
           /\ counts.created = h.c0.created

\* an order a live pass had mirrored is met again in the same state and
\* passed over, both its documents being in the ERP
C21_Witness ==
    /\ h.path = "same_state_ready"
    /\ InWindow(EndedOrder)
    /\ h.had0
    /\ ~h.mem0.dry
    /\ h.co0 /\ h.mv0
    /\ counts.skipped = h.c0.skipped + 1

\* C22: an order that had an entry and both its documents in the ERP when
\* its processing began, and is now observed in another, non-cancelled
\* state, ends with an entry that records the state now observed. (Orders
\* whose timeslot lies in the window and whose processing was not cut short
\* by an exception.)
C22_StateChangeUpdatesMemory ==
    (/\ Ended
     /\ h.path \notin {"raised_read", "raised_cfg", "raised_co", "raised_mv"}
     /\ InWindow(EndedOrder)
     /\ EndedOrder.state \notin CANCELLED_STATES
     /\ h.had0 /\ h.co0 /\ h.mv0
     /\ h.mem0.state # EndedOrder.state)
        => /\ EndedId \in DOMAIN supplies_mem
           /\ supplies_mem[EndedId].state = EndedOrder.state

MoveUnderWay == ~cfg.dry_run /\ pc = "mv_send"
MoveNumber == orders[idx].order_number

C24_SalesBeforeTransfer ==
    MoveUnderWay
        => /\ sales[MoveNumber] > 0
           /\ loc.co.name = MoveNumber
           /\ loc.co.n \in 1..sales[MoveNumber]
           /\ h.co0 => (loc.existing /\ h.co_calls = 0)
           /\ ~h.co0 => (h.co_calls = 1 /\ h.co_made)

C24_SalesBeforeTransferLinked ==
    /\ C24_SalesBeforeTransfer
    /\ MoveUnderWay => sales_lines[MoveNumber][loc.co.n] = loc.positions

\* C25: in a live pass, an order that is not cancelled and has an order
\* number, a timeslot in the window, a bundle id and only resolvable items,
\* and whose processing ended without a failed call, has a sales document
\* and a transfer document of its number in the ERP, whatever the memory
\* held when the pass began.
Eligible(o) ==
    /\ o.order_id # NOID
    /\ o.order_number # ""
    /\ o.state \notin CANCELLED_STATES
    /\ InWindow(o)
    /\ o.bundle_id # ""
    /\ \A k \in 1..Len(bundle_items_all(o.bundle_id)) :
           ItemResolved(bundle_items_all(o.bundle_id)[k])

C25_EligibleOrderMirrored ==
    (/\ Ended
     /\ ~cfg.dry_run
     /\ pc = "order"
     /\ h.path # "name_conflict_forget"
     /\ Eligible(EndedOrder))
        => /\ sales[EndedOrder.order_number] > 0
           /\ moves[EndedOrder.order_number] > 0

\* C26: the cache a process starts with is empty: the step that starts the
\* process anew leaves no record in the cache, so the first resolve of every
\* article asks the catalog.
C26_CacheEmptyAtStart ==
    [][Restart => assort_cache' = <<>>]_vars

\* the stock test of section 4.3 alone, and an error that passes both tests
StockTest(e) ==
    /\ e.kind = "http"
    /\ e.body \cap {"ostat", "stock", "not enough", "nedostat", "available",
                    "quantity"} # {}

BothTests(e) == ConflictClass(e) /\ StockTest(e)

\* C27 as stated: no create_move failure that passes both tests leaves the
\* order's processing as an exception (it is handled as a conflict), and a
\* second, non-binding call is made only after an error that passes the
\* stock test and not the conflict test.
C27_BothTestsMeansConflict ==
    /\ (h.path = "raised_mv") => ~BothTests(h.err)
    /\ (h.mv_calls = 2) => (StockTest(h.err1) /\ ~ConflictClass(h.err1))

\* C27 amended: when the first create_move call of an order fails with an
\* error that passes both tests, the entry is removed and no second call is
\* made; a second, non-binding call is made only after a first failure that
\* passes the stock test and not the conflict test.
C27_FirstFailurePrecedence ==
    /\ BothTests(h.err1)
          => /\ h.path = "name_conflict_forget"
             /\ EndedId \notin DOMAIN supplies_mem
             /\ h.mv_calls = 1
             /\ ~loc.retry
    /\ (h.mv_calls = 2 \/ loc.retry)
          => (StockTest(h.err1) /\ ~ConflictClass(h.err1))

\* status 412 with a body that mentions the quantity: the entry the order
\* had is gone and one create_move call was made
C27_Witness ==
    /\ h.path = "name_conflict_forget"
    /\ BothTests(h.err1)
    /\ h.had0
    /\ EndedId \notin DOMAIN supplies_mem
    /\ h.mv_calls = 1

\* C28: request sends the request at most max_attempts times and then
\* returns or raises; every sending but the first follows an attempt that
\* ended with a transport exception or a retryable status; an attempt
\* answered with another non-2xx status is the first and the last one, and
\* request raises HttpError. (The bound alone is C28_AtMostMaxAttempts.)
SentAgainAfter(a) == a.kind = "exc" \/ (a.kind = "http" /\ a.status \in RETRYABLE)
NotRetryable(a) == a.kind = "http" /\ a.status \notin RETRYABLE

C28_AtMostMaxAttempts ==
    (probe.op = "request")
        => /\ probe.calls <= probe.arg.max_attempts
           /\ (probe.err = "") => probe.arg.answers[probe.calls].kind = "ok"
           /\ (probe.err # "" /\ probe.arg.max_attempts > 0)
                 => probe.calls = probe.arg.max_attempts

C28_TransportRetryBound ==
    (probe.op = "request")
        => /\ probe.calls <= probe.arg.max_attempts
           /\ \A i \in 2..probe.calls : SentAgainAfter(probe.arg.answers[i - 1])
           /\ \A i \in 1..probe.calls :
                 NotRetryable(probe.arg.answers[i])
                    => (i = 1 /\ probe.calls = 1 /\ probe.err = "HttpError")

====
